---- MODULE Spec2Model ----
(***************************************************************************)
(* POLYSTEP verification pipeline.                                         *)
(*                                                                         *)
(* The model follows backend/app/services/browser_service.py (the agent    *)
(* run supervisor BrowserService._run_agent), backend/app/services/        *)
(* policy_verification_service.py (the orchestrator and its status         *)
(* decision) and backend/app/routers/policies.py (the REST endpoint with   *)
(* its background job, and the WebSocket job).                             *)
(*                                                                         *)
(* Python strings are sequences of tokens, so that strip(), concatenation  *)
(* and substring tests are computed and not assumed.  None is the token    *)
(* sequence None.  Python values of mixed type (matched) are tagged        *)
(* strings.                                                                *)
(***************************************************************************)
EXTENDS Integers, Sequences, FiniteSets, TLC

(***************************************************************************)
(* Bounds of the model.                                                    *)
(***************************************************************************)
MaxRetriesBound == 2
MaxSnapshotBound == 2
MaxJobs == 1
MaxLogLines == 4
MaxTextLen == 5
MaxDocs == 3

(***************************************************************************)
(* Strings.                                                                *)
(***************************************************************************)
None == <<"<None>">>
EmptyStr == <<>>
WS == " "

RECURSIVE LStrip(_)
LStrip(s) == IF s # <<>> /\ Head(s) = WS THEN LStrip(Tail(s)) ELSE s

RECURSIVE RStrip(_)
RStrip(s) == IF s # <<>> /\ s[Len(s)] = WS THEN RStrip(SubSeq(s, 1, Len(s) - 1)) ELSE s

\* str.strip()
Strip(s) == RStrip(LStrip(s))

\* (x or "")
OrEmpty(x) == IF x = None \/ x = EmptyStr THEN EmptyStr ELSE x

\* needle in haystack, for the phrases the classifiers search for
Contains(msg, phrase) == \E i \in 1..Len(msg) : msg[i] = phrase

(***************************************************************************)
(* Exceptions: the class name and the message.                             *)
(***************************************************************************)
Exc(cls, msg) == [cls |-> cls, msg |-> msg]
NoExc == Exc("<none>", <<>>)
WebSocketDisconnect == Exc("WebSocketDisconnect", <<>>)

_is_browser_snapshot_timeout(e) ==
    \/ Contains(e.msg, "ScreenshotWatchdog.on_ScreenshotEvent timed out")
    \/ Contains(e.msg, "Clean screenshot failed")

_is_browser_start_timeout(e) ==
    \/ Contains(e.msg, "BrowserStartEvent timed out")
    \/ Contains(e.msg, "_wait_for_cdp_url")

\* "overload" in msg.lower() and "overloaded" in msg.lower() are both decided
\* by the phrase "overloaded".
_is_overload_error(e) ==
    \/ Contains(e.msg, "503")
    \/ Contains(e.msg, "UNAVAILABLE")
    \/ Contains(e.msg, "overloaded")

\* What agent.run() under asyncio.wait_for can raise: an exception of each
\* class, the pairs that put one exception in two classes, an exception of
\* no class, and the TimeoutError of wait_for.
AgentExceptions ==
    {Exc("RuntimeError", <<"ScreenshotWatchdog.on_ScreenshotEvent timed out">>),
     Exc("RuntimeError", <<"BrowserStartEvent timed out">>),
     Exc("RuntimeError", <<"503">>),
     Exc("RuntimeError", <<"overloaded">>),
     Exc("RuntimeError", <<"Clean screenshot failed", "UNAVAILABLE">>),
     Exc("RuntimeError", <<"_wait_for_cdp_url", "503">>),
     Exc("RuntimeError", <<"element not found">>),
     Exc("TimeoutError", <<>>)}

(***************************************************************************)
(* The status decision of the orchestrator.                                *)
(***************************************************************************)
MatchedValues == {"True", "False", "None", "str:true"}

\* repr(matched)
Repr(matched) ==
    CASE matched = "True" -> "True"
      [] matched = "False" -> "False"
      [] matched = "None" -> "None"
      [] OTHER -> "'true'"

RECURSIVE JoinReasons(_)
JoinReasons(reasons) ==
    IF reasons = <<>> THEN <<>>
    ELSE IF Len(reasons) = 1 THEN reasons[1]
    ELSE reasons[1] \o <<" | ">> \o JoinReasons(Tail(reasons))

\* the decision without the needs_review test
DecideIgnoringReview(result) ==
    LET err == Strip(OrEmpty(result.error_message))
    IN  IF result.matched = "True" /\ err = EmptyStr
        THEN [status |-> "SUCCESS", reason |-> EmptyStr]
        ELSE [status |-> "FAILED", reason |-> <<"verification not successful">>]

_decide_status_from_browser_result(result) ==
    LET matched == result.matched
        needs_review == result.needs_review
        err == Strip(OrEmpty(result.error_message))
        reasons == (IF matched # "True" THEN << <<"matched=", Repr(matched)>> >> ELSE <<>>)
                   \o (IF needs_review THEN << <<"needs_review=True">> >> ELSE <<>>)
                   \o (IF err # EmptyStr THEN << <<"error_message=">> \o err >> ELSE <<>>)
    IN  IF err = <<"POLICY_NOT_FOUND">>
        THEN [status |-> "FAILED",
              reason |-> <<"policy not found on the provided site (POLICY_NOT_FOUND)">>]
        ELSE IF matched = "True" /\ ~needs_review /\ err = EmptyStr
        THEN [status |-> "SUCCESS", reason |-> EmptyStr]
        ELSE [status |-> "FAILED",
              reason |-> IF reasons # <<>> THEN JoinReasons(reasons)
                         ELSE <<"verification not successful">>]

(***************************************************************************)
(* State.                                                                  *)
(*   env       the process environment read by _run_agent                  *)
(*   policy    the Policy row: "ok", "no_url" (empty target_url), "missing"*)
(*   v         the latest PolicyVerification row of the policy             *)
(*   job       the verification job in progress and its position           *)
(*   observer  the WebSocket peer: "none", "connected", "disconnected"     *)
(*   ra        the frame of BrowserService._run_agent                      *)
(*   jobs      number of jobs that may still be launched                   *)
(*   probe     argument and value of a pure function applied on its own    *)
(*   bridge    the logging -> WebSocket bridge of a run, taken on its own  *)
(***************************************************************************)
VARIABLES env, policy, v, job, observer, ra, jobs, probe, bridge, downloads, shim,
          requests

vars == <<env, policy, v, job, observer, ra, jobs, probe, bridge, downloads, shim, requests>>

BROWSER_MAX_TIME_SEC == 300

\* DISPLAY is read on Linux only
Environments ==
    {e \in [IS_LINUX : BOOLEAN,
            DISPLAY : BOOLEAN,
            BROWSER_HEADLESS : BOOLEAN,
            BROWSER_KEEP_OPEN : BOOLEAN,
            BROWSER_LLM_MAX_RETRIES : 0..MaxRetriesBound,
            BROWSER_MAX_SNAPSHOT_FAILURES : 1..MaxSnapshotBound] :
        e.IS_LINUX \/ e.DISPLAY}

_has_display == IF ~env.IS_LINUX THEN TRUE ELSE env.DISPLAY

_should_force_headless(headless) ==
    IF env.IS_LINUX /\ ~_has_display THEN TRUE ELSE headless

(***************************************************************************)
(* Navigation paths and agent results.                                     *)
(***************************************************************************)
NavStep(action, note) == [action |-> action, note |-> note]
EntryPath == <<NavStep("open", "entry")>>
ClickPath == <<NavStep("open", "entry"), NavStep("click", "tab")>>

Result(matched, needs_review, error_message, navigation_path, required_documents, downloaded_files) ==
    [matched |-> matched,
     needs_review |-> needs_review,
     error_message |-> error_message,
     navigation_path |-> navigation_path,
     required_documents |-> required_documents,
     downloaded_files |-> downloaded_files]

NoResult == Result("None", FALSE, None, <<>>, <<>>, <<>>)

\* the dedicated result of the snapshot circuit breaker
CircuitBreakResult ==
    Result("None", TRUE,
           <<"Browser snapshot (screenshot/DOM) timeouts occurred repeatedly. Manual review needed.">>,
           <<>>, <<>>, <<>>)

\* f"Agent exceeded {max_time_sec:.0f}s timeout"
TimeoutResult ==
    Result("None", TRUE,
           <<"Agent exceeded ", ToString(BROWSER_MAX_TIME_SEC), "s timeout">>,
           <<>>, <<>>, <<>>)

\* f"Agent execution failed: {str(e)}"
AgentFailedResult(e) ==
    Result("None", TRUE, <<"Agent execution failed: ">> \o e.msg, <<>>, <<>>, <<>>)

(***************************************************************************)
(* Required-documents cleaning.  An entry is its text and the outcome of   *)
(* each test the code applies to the text.                                 *)
(***************************************************************************)
DocEntry(s, file_ext, tel_word, phone, address, doc_word) ==
    [s |-> s, file_ext |-> file_ext, tel_word |-> tel_word, phone |-> phone,
     address |-> address, doc_word |-> doc_word]

\* a document file name (with a document word), and a bare phone number
FileDoc == DocEntry("sincheongseo.pdf", TRUE, FALSE, FALSE, FALSE, TRUE)
PhoneDoc == DocEntry("02-123-4567", FALSE, FALSE, TRUE, FALSE, FALSE)

KeepDocument(d) ==
    /\ d.s # ""
    /\ ~(d.tel_word /\ ~d.file_ext)
    /\ ~(d.phone /\ ~d.file_ext)
    /\ ~(d.address /\ ~d.file_ext)
    /\ (d.file_ext \/ d.doc_word)

RECURSIVE DedupKeepOrder(_, _)
DedupKeepOrder(items, seen) ==
    IF items = <<>> THEN <<>>
    ELSE IF Head(items) \in seen THEN DedupKeepOrder(Tail(items), seen)
    ELSE <<Head(items)>> \o DedupKeepOrder(Tail(items), seen \cup {Head(items)})

_clean_required_documents(items) ==
    DedupKeepOrder(SelectSeq(items, KeepDocument), {})

(***************************************************************************)
(* The frame of BrowserService._run_agent.                                 *)
(*   pc                   "idle", "prepare", "create_browser",             *)
(*                        "construct_agent", "announce", "start_pumps",    *)
(*                        "loop", "finally", "post", "returned", "raised"  *)
(*   browser              index in sessions of the current Browser, 0: none*)
(*   sessions             every Browser created: "open" or "closed"        *)
(*   screenshot_task_live index in shot_tasks of the live task, 0: None    *)
(*   shot_tasks           every screenshot pump task started               *)
(*   ws_log_pump_task     "none", "running", "cancelled"                   *)
(*   slept                the asyncio.sleep calls, in units of base_backoff*)
(*   runs                 the agent.run() calls: the headless flag of each *)
(*   errors               what each failed agent.run() call raised         *)
(*   fallbacks            headless fallbacks that reached their continue   *)
(*   exit                 which return statement produced the result       *)
(*   final_text           history.final_result(), once it was read         *)
(***************************************************************************)
IdleFrame ==
    [pc |-> "idle", has_log |-> FALSE, has_shot |-> FALSE,
     headless |-> FALSE, keep_open |-> FALSE,
     max_retries |-> 0, max_snapshot_failures |-> 0,
     attempt |-> 0, snapshot_failures |-> 0,
     history |-> "None", last_err |-> NoExc,
     browser |-> 0, sessions |-> <<>>,
     screenshot_task_live |-> 0, shot_tasks |-> <<>>,
     ws_log_pump_task |-> "none",
     slept |-> <<>>, runs |-> <<>>, errors |-> <<>>, fallbacks |-> 0,
     exit |-> "none", final_text |-> <<>>, result |-> NoResult, exc |-> NoExc]

\* a progress callback of the WebSocket job raises once the peer is gone
EmitRaises(f) == f.has_log /\ observer = "disconnected"

Raise(f, e) == [f EXCEPT !.pc = "raised", !.exc = e]

Return(f, result, exit) == [f EXCEPT !.pc = "finally", !.result = result, !.exit = exit]

_create_browser(f) ==
    [f EXCEPT !.sessions = Append(@, "open"), !.browser = Len(f.sessions) + 1]

CloseBrowser(f) ==
    IF f.browser # 0 THEN [f EXCEPT !.sessions[f.browser] = "closed"] ELSE f

StartLiveShot(f) ==
    IF f.has_shot
    THEN [f EXCEPT !.shot_tasks = Append(@, "running"),
                   !.screenshot_task_live = Len(f.shot_tasks) + 1]
    ELSE f

_stop_live_shot(f) ==
    IF f.screenshot_task_live # 0
    THEN [f EXCEPT !.shot_tasks[f.screenshot_task_live] = "cancelled",
                   !.screenshot_task_live = 0]
    ELSE f

\* except asyncio.TimeoutError / except Exception around the attempt loop
OuterExcept(f, e) ==
    IF e.cls = "TimeoutError"
    THEN Return(f, TimeoutResult, "timeout")
    ELSE Return(f, AgentFailedResult(e), "agent_failed")

\* the statements after the for loop
AfterLoop(f) ==
    LET g == _stop_live_shot(f)
    IN  IF g.history = "None"
        THEN OuterExcept(g, IF g.last_err # NoExc THEN g.last_err
                            ELSE Exc("RuntimeError", <<"Agent run failed with unknown error">>))
        ELSE [g EXCEPT !.pc = "finally", !.exit = "parsed"]

\* continue: the next value of range(0, max_retries + 1), if any
Continue(f) ==
    IF f.attempt < f.max_retries THEN [f EXCEPT !.attempt = @ + 1] ELSE AfterLoop(f)

\* last_err = e; overload retry with backoff, or re-raise
RetryOrRaise(f, e) ==
    LET g == [f EXCEPT !.last_err = e]
    IN  IF _is_overload_error(e) /\ g.attempt < g.max_retries
        THEN Continue([g EXCEPT !.slept = Append(@, 2 ^ g.attempt)])
        ELSE OuterExcept(g, e)

\* the headless fallback after a BrowserStart/CDP failure
HeadlessFallback(f, e, prep) ==
    IF EmitRaises(f) THEN OuterExcept(f, WebSocketDisconnect)
    ELSE LET g == [CloseBrowser(_stop_live_shot(f)) EXCEPT !.headless = TRUE]
         IN  CASE prep = "ok" ->
                    Continue([StartLiveShot(_create_browser(g)) EXCEPT !.fallbacks = @ + 1])
               [] prep = "create_fails" -> RetryOrRaise(g, e)
               [] OTHER -> RetryOrRaise(_create_browser(g), e)

\* except Exception as e, inside the loop
HandleAttemptError(f, e, prep) ==
    LET snap == _is_browser_snapshot_timeout(e)
        g == IF snap THEN [f EXCEPT !.snapshot_failures = @ + 1] ELSE f
    IN  IF snap /\ g.snapshot_failures >= g.max_snapshot_failures
        THEN Return(_stop_live_shot(g), CircuitBreakResult, "circuit_break")
        ELSE IF env.IS_LINUX /\ ~g.headless /\ _is_browser_start_timeout(e)
        THEN HeadlessFallback(g, e, prep)
        ELSE RetryOrRaise(g, e)

(***************************************************************************)
(* The final text of the agent: a sequence of tokens.  A token is a brace, *)
(* a code fence, a member "key": value of a JSON object, a JSON list, or   *)
(* a piece of prose.                                                       *)
(***************************************************************************)
Tok(k, val) == [k |-> k, val |-> val]
LB == Tok("{", "")
RB == Tok("}", "")
\* the three backquotes that open or close a fenced block
Fence == Tok("fence", "")
JsonList == Tok("[]", "")
Prose == Tok("text", "the task is complete")
\* prose with one of _NOT_FOUND_HINTS
HintProse == Tok("text", "no matching data")
Member(key, val) == Tok(key, val)

MemberKeys ==
    {"matched", "needs_review", "error_message", "navigation_path",
     "required_documents", "confidence", "evidence_text"}

\* any(h in low for h in _NOT_FOUND_HINTS): the phrase anywhere in the text
HasHint(text) == \E i \in 1..Len(text) : text[i].val = "no matching data"

IsJsonObject(t) ==
    /\ Len(t) >= 2
    /\ t[1] = LB /\ t[Len(t)] = RB
    /\ \A i \in 2..(Len(t) - 1) : t[i].k \in MemberKeys

\* json.loads(t) does not raise
IsJson(t) == IsJsonObject(t) \/ t = <<JsonList>>

\* the members between the braces of an object
Inner(t) == SubSeq(t, 2, Len(t) - 1)

\* a decoded dict, and {"raw": text}
Dict(members) == [raw |-> FALSE, members |-> members]
RawText == [raw |-> TRUE, members |-> <<>>]

\* the dict synthesized for a not-found text
NotFoundMembers ==
    <<Member("matched", "false"), Member("required_documents", "[]"),
      Member("navigation_path", "[]"), Member("error_message", "POLICY_NOT_FOUND"),
      Member("confidence", "0.0"), Member("needs_review", "false")>>

\* re.search of a fence, an optional "json", a span from "{" to "}" and a
\* fence: group 1 of the leftmost match, the longest from there; <<>> if none
FencedCandidate(text) ==
    LET Ends(i) == {j \in (i + 2)..(Len(text) - 1) : text[j] = RB /\ text[j + 1] = Fence}
        Starts == {i \in 1..Len(text) :
                     /\ text[i] = Fence /\ i + 1 <= Len(text) /\ text[i + 1] = LB
                     /\ Ends(i) # {}}
    IN  IF Starts = {} THEN <<>>
        ELSE LET i == CHOOSE x \in Starts : \A y \in Starts : x <= y
                 j == CHOOSE x \in Ends(i) : \A y \in Ends(i) : x >= y
             IN  SubSeq(text, i + 1, j)

\* text[start : end + 1] for the first "{" and the last "}"; <<>> if none
BraceCandidate(text) ==
    LET Opens == {i \in 1..Len(text) : text[i] = LB}
        Closes == {i \in 1..Len(text) : text[i] = RB}
    IN  IF Opens = {} \/ Closes = {} THEN <<>>
        ELSE LET start == CHOOSE x \in Opens : \A y \in Opens : x <= y
                 end == CHOOSE x \in Closes : \A y \in Closes : x >= y
             IN  IF end > start THEN SubSeq(text, start, end) ELSE <<>>

\* the parser without the not-found heuristic
SafeJsonLoadsWithoutHints(text) ==
    IF IsJson(text)
    THEN (IF IsJsonObject(text) THEN Dict(Inner(text)) ELSE RawText)
    ELSE IF FencedCandidate(text) # <<>> /\ IsJson(FencedCandidate(text))
    THEN Dict(Inner(FencedCandidate(text)))
    ELSE IF BraceCandidate(text) # <<>> /\ IsJson(BraceCandidate(text))
    THEN Dict(Inner(BraceCandidate(text)))
    ELSE RawText

_safe_json_loads(text) ==
    IF IsJson(text)
    THEN (IF IsJsonObject(text) THEN Dict(Inner(text)) ELSE RawText)
    ELSE IF HasHint(text)
    THEN Dict(NotFoundMembers)
    ELSE IF FencedCandidate(text) # <<>> /\ IsJson(FencedCandidate(text))
    THEN Dict(Inner(FencedCandidate(text)))
    ELSE IF BraceCandidate(text) # <<>> /\ IsJson(BraceCandidate(text))
    THEN Dict(Inner(BraceCandidate(text)))
    ELSE RawText

(***************************************************************************)
(* What _run_agent reads from the parsed dict.  raw: the key "raw" is in   *)
(* the dict (no JSON object was found).                                    *)
(***************************************************************************)
Parsed(raw, matched, needs_review, error_message, navigation_path, required_documents, confidence) ==
    [raw |-> raw, matched |-> matched, needs_review |-> needs_review,
     error_message |-> error_message, navigation_path |-> navigation_path,
     required_documents |-> required_documents, confidence |-> confidence]

HasKey(members, key) == \E i \in 1..Len(members) : members[i].k = key

\* parsed.get(key): the last member of that key, "null" if there is none
Get(members, key) ==
    IF HasKey(members, key)
    THEN LET i == CHOOSE x \in 1..Len(members) :
                    /\ members[x].k = key
                    /\ \A y \in 1..Len(members) : members[y].k = key => y <= x
         IN  members[i].val
    ELSE "null"

\* the JSON values of the members as the values of the model
MatchedOf(val) ==
    CASE val = "true" -> "True"
      [] val = "false" -> "False"
      [] val = "null" -> "None"
      [] OTHER -> "str:true"

ErrorMessageOf(val) ==
    CASE val = "null" -> None
      [] val = "" -> EmptyStr
      [] val = " " -> <<WS>>
      [] OTHER -> <<val>>

NavigationPathOf(val) == IF val = "click" THEN ClickPath ELSE <<>>

RequiredDocumentsOf(val) == IF val = "file,phone" THEN <<FileDoc, PhoneDoc>> ELSE <<>>

ParsedOf(d) ==
    Parsed(d.raw,
           MatchedOf(Get(d.members, "matched")),
           Get(d.members, "needs_review") = "true",
           ErrorMessageOf(Get(d.members, "error_message")),
           NavigationPathOf(Get(d.members, "navigation_path")),
           RequiredDocumentsOf(Get(d.members, "required_documents")),
           IF Get(d.members, "confidence") = "null" THEN "0.0"
           ELSE Get(d.members, "confidence"))

\* a JSON object as text
Obj(members) == <<LB>> \o members \o <<RB>>

\* the object of a verified policy found by clicking
VerifiedMembers ==
    <<Member("matched", "true"), Member("needs_review", "false"),
      Member("error_message", "null"), Member("navigation_path", "click"),
      Member("confidence", "0.9")>>

\* final texts of the agent: plain objects, an object inside a fence or
\* inside prose, with and without a not-found phrase around it, and prose
FinalTexts ==
    {Obj(<<Member("matched", m), Member("needs_review", n), Member("error_message", e),
           Member("navigation_path", "click"), Member("confidence", "0.9")>>) :
        m \in {"true", "false", "null", "'true'"}, n \in {"true", "false"},
        e \in {"null", "boom"}}
    \cup {Obj(<<Member("matched", "true"), Member("needs_review", "false"),
                Member("error_message", "null"), Member("navigation_path", p),
                Member("required_documents", d), Member("confidence", "0.9")>>) :
        p \in {"[]", "click"}, d \in {"[]", "file,phone"}}
    \cup {Obj(<<Member("matched", "true"), Member("needs_review", "false"),
                Member("error_message", " "), Member("navigation_path", "click"),
                Member("confidence", "0.9")>>),
          Obj(<<Member("matched", "true"), Member("needs_review", "false"),
                Member("error_message", "null"), Member("navigation_path", "click"),
                Member("confidence", "high")>>),
          <<HintProse>>,
          <<Prose>>,
          <<Prose, Fence>> \o Obj(VerifiedMembers) \o <<Fence>>,
          <<Fence>> \o Obj(VerifiedMembers) \o <<Fence, HintProse>>,
          <<Prose>> \o Obj(VerifiedMembers)}

ParsedOutputs == {ParsedOf(_safe_json_loads(t)) : t \in FinalTexts}

\* the new files of the downloads directory; a download happens only for a
\* document the agent lists
DownloadedFiles(parsed) ==
    IF parsed.required_documents = <<>> THEN {<<>>} ELSE {<<>>, <<"sincheongseo.pdf">>}

\* float(parsed.get("confidence") or 0.0) raises ValueError on a non-number
FloatRaises(confidence) == confidence \notin {"0.0", "0.9"}

JsonParsingFailed ==
    Parsed(FALSE, "None", TRUE,
           <<"JSON parsing failed - manual review needed. raw text stored in evidence_text.">>,
           <<>>, <<>>, "0.0")

\* the result built from the parsed output, the entry step injected into an
\* empty navigation_path, the repair, and the note about missing downloads
BuildResult(parsed0, downloaded_files) ==
    LET parsed == IF parsed0.raw /\ parsed0.matched = "None" THEN JsonParsingFailed ELSE parsed0
        nav == IF parsed.navigation_path = <<>> THEN EntryPath ELSE parsed.navigation_path
        docs == _clean_required_documents(parsed.required_documents)
        err == IF docs # <<>> /\ downloaded_files = <<>>
               THEN Strip(OrEmpty(parsed.error_message)
                          \o <<WS, "NOTE: required_documents may not have been downloaded">>)
               ELSE parsed.error_message
    IN  Result(parsed.matched, parsed.needs_review, err, nav, docs, downloaded_files)

(***************************************************************************)
(* _run_agent, step by step.  It runs while the job is at "agent".         *)
(***************************************************************************)
\* URL normalisation, environment, progress lines before a session exists
RA_Prepare ==
    /\ job.pc = "agent" /\ ra.pc = "prepare"
    /\ ra' = IF EmitRaises(ra) THEN Raise(ra, WebSocketDisconnect)
             ELSE [ra EXCEPT !.pc = "create_browser",
                             !.headless = _should_force_headless(env.BROWSER_HEADLESS),
                             !.keep_open = env.BROWSER_KEEP_OPEN,
                             !.max_snapshot_failures = env.BROWSER_MAX_SNAPSHOT_FAILURES,
                             !.max_retries = env.BROWSER_LLM_MAX_RETRIES]
    /\ UNCHANGED <<requests, shim, downloads, bridge, probe, env, policy, v, job, observer, jobs>>

\* browser = await _create_browser(headless)
RA_CreateBrowser ==
    /\ job.pc = "agent" /\ ra.pc = "create_browser"
    /\ \E launched \in BOOLEAN :
         ra' = IF launched THEN [_create_browser(ra) EXCEPT !.pc = "construct_agent"]
               ELSE Raise(ra, Exc("RuntimeError", <<"browser launch failed">>))
    /\ UNCHANGED <<requests, shim, downloads, bridge, probe, env, policy, v, job, observer, jobs>>

\* ChatGoogle(...), Controller(...), Agent(...)
RA_ConstructAgent ==
    /\ job.pc = "agent" /\ ra.pc = "construct_agent"
    /\ \E constructed \in BOOLEAN :
         ra' = IF constructed THEN [ra EXCEPT !.pc = "announce"]
               ELSE Raise(ra, Exc("ValueError", <<"agent construction failed">>))
    /\ UNCHANGED <<requests, shim, downloads, bridge, probe, env, policy, v, job, observer, jobs>>

\* the progress line announcing the run
RA_Announce ==
    /\ job.pc = "agent" /\ ra.pc = "announce"
    /\ ra' = IF EmitRaises(ra) THEN Raise(ra, WebSocketDisconnect)
             ELSE [ra EXCEPT !.pc = "start_pumps"]
    /\ UNCHANGED <<requests, shim, downloads, bridge, probe, env, policy, v, job, observer, jobs>>

\* the log pump and the live-screenshot pump are started
RA_StartPumps ==
    /\ job.pc = "agent" /\ ra.pc = "start_pumps"
    /\ LET f == StartLiveShot([ra EXCEPT !.ws_log_pump_task =
                                   IF ra.has_log THEN "running" ELSE "none"])
       IN  ra' = IF f.has_shot /\ EmitRaises(f) THEN Raise(f, WebSocketDisconnect)
                 ELSE [f EXCEPT !.pc = "loop"]
    /\ UNCHANGED <<requests, shim, downloads, bridge, probe, env, policy, v, job, observer, jobs>>

\* one iteration of the attempt loop
RA_Attempt ==
    /\ job.pc = "agent" /\ ra.pc = "loop"
    /\ IF ra.attempt > 0 /\ EmitRaises(ra)
       THEN ra' = HandleAttemptError(ra, WebSocketDisconnect, "ok")
       ELSE LET f == [ra EXCEPT !.runs = Append(@, ra.headless)]
            IN  \/ ra' = AfterLoop([f EXCEPT !.history = "history", !.last_err = NoExc])
                \/ \E prep \in {"ok", "create_fails", "agent_fails"} :
                   \E e \in AgentExceptions \cup {Exc("RuntimeError", <<"Agent returned None">>)} :
                      ra' = HandleAttemptError([f EXCEPT !.errors = Append(@, e)], e, prep)
    /\ UNCHANGED <<requests, shim, downloads, bridge, probe, env, policy, v, job, observer, jobs>>

\* the finally clause
RA_Finally ==
    /\ job.pc = "agent" /\ ra.pc = "finally"
    /\ LET f == [ra EXCEPT !.ws_log_pump_task = IF @ = "running" THEN "cancelled" ELSE @]
           g == IF ~f.keep_open THEN CloseBrowser(f) ELSE f
       IN  ra' = [g EXCEPT !.pc = IF g.exit = "parsed" THEN "post" ELSE "returned"]
    /\ UNCHANGED <<requests, shim, downloads, bridge, probe, env, policy, v, job, observer, jobs>>

\* parsing and repair of the final text
RA_Post ==
    /\ job.pc = "agent" /\ ra.pc = "post"
    /\ IF EmitRaises(ra)
       THEN ra' = Raise(ra, WebSocketDisconnect)
       ELSE \E text \in FinalTexts :
            LET parsed == ParsedOf(_safe_json_loads(text))
                f == [ra EXCEPT !.final_text = text]
            IN  \E files \in DownloadedFiles(parsed) :
                  ra' = IF FloatRaises(parsed.confidence)
                        THEN Raise(f, Exc("ValueError", <<"could not convert string to float">>))
                        ELSE [f EXCEPT !.pc = "returned", !.result = BuildResult(parsed, files)]
    /\ UNCHANGED <<requests, shim, downloads, bridge, probe, env, policy, v, job, observer, jobs>>

RunAgent ==
    \/ RA_Prepare \/ RA_CreateBrowser \/ RA_ConstructAgent \/ RA_Announce
    \/ RA_StartPumps \/ RA_Attempt \/ RA_Finally \/ RA_Post

(***************************************************************************)
(* The PolicyVerification row.  navigation_path None and [] are both <<>>: *)
(* every read of the column tests its truth value only.                    *)
(***************************************************************************)
NoRecord ==
    [exists |-> FALSE, status |-> "PENDING", error_message |-> None,
     navigation_path |-> <<>>, verified |-> FALSE, final_guidance |-> "none"]

\* get_or_create_verification followed by status = PENDING, error_message = None
get_or_create_verification(rec) ==
    IF rec.exists THEN rec ELSE [NoRecord EXCEPT !.exists = TRUE]

MarkPending(rec) ==
    [get_or_create_verification(rec) EXCEPT !.status = "PENDING", !.error_message = None]

NoDecision == [status |-> "none", reason |-> EmptyStr]

NoProbe == [fn |-> "none", arg |-> NoResult, out |-> NoDecision]

\* the log bridge before _run_agent sets it up
NoBridge ==
    [ws_log_queue |-> <<>>, pump |-> "none", line |-> "", logged |-> 0,
     sent |-> 0, dropped |-> 0]

\* the downloads directory before any run
NoDownloads == [dir |-> {}, extracted |-> {}, run |-> <<>>]

\* no call of _run_agent through the thread shim
NoShim == [pc |-> "none"]

\* no request handler of POST /{policy_id}/verify
NoRequests == [handler |-> <<>>]

NoJob == [kind |-> "none", pc |-> "none", mode |-> "none", path |-> "none"]

JobInFlight == job.pc \notin {"none", "done"}

StartFrame(callbacks) ==
    [IdleFrame EXCEPT !.pc = "prepare", !.has_log = callbacks, !.has_shot = callbacks]

\* f"{e}\n{traceback.format_exc()}"
TracebackText(e) == e.msg \o <<"\n", "Traceback (most recent call last):">>

(***************************************************************************)
(* REST: POST /{policy_id}/verify and its background job.                  *)
(***************************************************************************)
request_verification ==
    /\ ~JobInFlight
    /\ policy # "missing"
    /\ \E force \in BOOLEAN :
         IF v.exists /\ v.status = "PENDING" /\ ~force
         THEN /\ job' = [NoJob EXCEPT !.path = "already_running"]
              /\ job' # job
              /\ UNCHANGED <<v, jobs, ra>>
         ELSE /\ jobs > 0
              /\ v' = MarkPending(v)
              /\ job' = [NoJob EXCEPT !.kind = "rest", !.pc = "queued"]
              /\ jobs' = jobs - 1
              /\ ra' = IdleFrame
    /\ UNCHANGED <<requests, shim, downloads, bridge, probe, env, policy, observer>>

\* the Policy row disappears while no job has loaded it
DeletePolicy ==
    /\ policy # "missing"
    /\ \/ job.pc \in {"none", "queued"}
       \/ job.pc = "done" /\ jobs > 0
    /\ policy' = "missing"
    /\ UNCHANGED <<requests, shim, downloads, bridge, probe, env, v, job, observer, ra, jobs>>

\* verify_policy_sync: is the stored path a usable hint
usable_hint(navigation_path) ==
    /\ navigation_path # <<>>
    /\ \/ Len(navigation_path) >= 2
       \/ /\ Len(navigation_path) = 1
          /\ \/ navigation_path[1].action # "open"
             \/ navigation_path[1].note # "auto-injected"

\* job() of ws_verify: "if navigation_path:"
ws_usable_hint(navigation_path) == navigation_path # <<>>

\* run_verification_job_sync up to the call of _run_agent
BgStart ==
    /\ job.kind = "rest" /\ job.pc = "queued"
    /\ IF policy = "missing"
       THEN /\ v' = [v EXCEPT !.status = "FAILED", !.error_message = <<"Policy not found">>,
                              !.verified = TRUE]
            /\ job' = [job EXCEPT !.pc = "done", !.path = "policy_missing"]
            /\ UNCHANGED ra
       ELSE IF policy = "no_url"
       THEN /\ v' = [v EXCEPT !.status = "FAILED",
                              !.error_message = TracebackText(Exc("ValueError", <<"policy.target_url is empty">>)),
                              !.verified = TRUE]
            /\ job' = [job EXCEPT !.pc = "done", !.path = "exception"]
            /\ UNCHANGED ra
       ELSE /\ job' = [job EXCEPT !.pc = "agent",
                                  !.mode = IF usable_hint(v.navigation_path) THEN "hint" ELSE "explore"]
            /\ ra' = StartFrame(FALSE)
            /\ UNCHANGED v
    /\ UNCHANGED <<requests, shim, downloads, bridge, probe, env, policy, observer, jobs>>

\* FinalGuidanceService.generate_final_guidance: the exception it raises, or
\* the guidance it returns ("generated": the JSON of the model,
\* "placeholder": the minimal structure with needs_review = True and a warning)
generate_final_guidance(api_key, response) ==
    IF ~api_key
    THEN [exc |-> Exc("RuntimeError", <<"GOOGLE_API_KEY is not set">>), guidance |-> "none"]
    ELSE IF response = "raises"
    THEN [exc |-> Exc("ServiceUnavailable", <<"503 provider unavailable">>), guidance |-> "none"]
    ELSE IF response = "not_json"
    THEN [exc |-> NoExc, guidance |-> "placeholder"]
    ELSE [exc |-> NoExc, guidance |-> "generated"]

\* the error_message that keeps only the agent's error
FinalErrWithoutReason(result, status_reason) ==
    LET browser_err == Strip(OrEmpty(result.error_message))
    IN  IF browser_err # EmptyStr THEN browser_err ELSE None

\* run_verification_job_sync: browser_err, final_err, v.error_message
final_err(result, status_reason) ==
    LET browser_err == Strip(OrEmpty(result.error_message))
        err == IF browser_err # EmptyStr THEN browser_err ELSE Strip(OrEmpty(status_reason))
    IN  IF err # EmptyStr THEN err ELSE None

\* run_verification_job_sync after _run_agent returned: decision, artifact
\* extraction, bundle, guidance, and the commit
BgAfterAgent ==
    /\ job.kind = "rest" /\ job.pc = "agent" /\ ra.pc = "returned"
    /\ \E pipeline_raises \in BOOLEAN, api_key \in BOOLEAN,
          response \in {"json", "not_json", "raises"} :
         LET final_guidance == generate_final_guidance(api_key, response)
         IN  IF pipeline_raises
             THEN /\ v' = [v EXCEPT !.status = "FAILED",
                                    !.error_message = TracebackText(Exc("RuntimeError", <<"extraction failed">>)),
                                    !.verified = TRUE]
                  /\ job' = [job EXCEPT !.pc = "done", !.path = "exception"]
             ELSE IF final_guidance.exc # NoExc
             THEN /\ v' = [v EXCEPT !.status = "FAILED",
                                    !.error_message = TracebackText(final_guidance.exc),
                                    !.verified = TRUE]
                  /\ job' = [job EXCEPT !.pc = "done", !.path = "guidance_exception"]
             ELSE LET decided == _decide_status_from_browser_result(ra.result)
                  IN  /\ v' = [v EXCEPT !.status = decided.status,
                                        !.navigation_path = ra.result.navigation_path,
                                        !.error_message = final_err(ra.result, decided.reason),
                                        !.verified = TRUE,
                                        !.final_guidance = final_guidance.guidance]
                      /\ job' = [job EXCEPT !.pc = "done", !.path = "decided"]
    /\ UNCHANGED <<requests, shim, downloads, bridge, probe, env, policy, observer, ra, jobs>>

\* except Exception as e, in run_verification_job_sync
BgAgentRaised ==
    /\ job.kind = "rest" /\ job.pc = "agent" /\ ra.pc = "raised"
    /\ v' = [v EXCEPT !.status = "FAILED", !.error_message = TracebackText(ra.exc),
                      !.verified = TRUE]
    /\ job' = [job EXCEPT !.pc = "done", !.path = "exception"]
    /\ UNCHANGED <<requests, shim, downloads, bridge, probe, env, policy, observer, ra, jobs>>

(***************************************************************************)
(* WebSocket: /ws/{policy_id}/verify and its job.                          *)
(***************************************************************************)
ws_verify ==
    /\ ~JobInFlight
    /\ jobs > 0
    /\ job' = [NoJob EXCEPT !.kind = "ws", !.pc = "ws_load"]
    /\ observer' = "connected"
    /\ jobs' = jobs - 1
    /\ ra' = IdleFrame
    /\ UNCHANGED <<requests, shim, downloads, bridge, probe, env, policy, v>>

\* the peer closes the connection
ObserverDisconnect ==
    /\ observer = "connected"
    /\ job.kind = "ws" /\ JobInFlight
    /\ observer' = "disconnected"
    /\ UNCHANGED <<requests, shim, downloads, bridge, probe, env, policy, v, job, ra, jobs>>

\* job(): the Policy is loaded and the record is set to PENDING
WsLoad ==
    /\ job.kind = "ws" /\ job.pc = "ws_load"
    /\ IF policy = "missing"
       THEN /\ job' = [job EXCEPT !.pc = "done", !.path = "policy_missing"]
            /\ UNCHANGED v
       ELSE /\ v' = MarkPending(v)
            /\ job' = [job EXCEPT !.pc = "ws_announce"]
    /\ UNCHANGED <<requests, shim, downloads, bridge, probe, env, policy, observer, ra, jobs>>

\* job(): first progress line, choice of mode, verify_policy_with_* up to
\* the call of _run_agent
WsAnnounce ==
    /\ job.kind = "ws" /\ job.pc = "ws_announce"
    /\ IF observer = "disconnected"
       THEN /\ job' = [job EXCEPT !.pc = "done", !.path = "disconnect"]
            /\ UNCHANGED <<v, ra>>
       ELSE IF policy = "no_url"
       THEN /\ v' = [get_or_create_verification(v) EXCEPT
                        !.status = "FAILED", !.error_message = <<"policy.target_url is empty">>,
                        !.verified = TRUE]
            /\ job' = [job EXCEPT !.pc = "done", !.path = "exception",
                                  !.mode = IF ws_usable_hint(v.navigation_path) THEN "hint" ELSE "explore"]
            /\ UNCHANGED ra
       ELSE /\ job' = [job EXCEPT !.pc = "agent",
                                  !.mode = IF ws_usable_hint(v.navigation_path) THEN "hint" ELSE "explore"]
            /\ ra' = StartFrame(TRUE)
            /\ UNCHANGED v
    /\ UNCHANGED <<requests, shim, downloads, bridge, probe, env, policy, observer, jobs>>

\* job(): the lines after the await of verify_policy_with_*
WsAfterAgent ==
    /\ job.kind = "ws" /\ job.pc = "agent" /\ ra.pc = "returned"
    /\ v' = [v EXCEPT !.status = "SUCCESS",
                      !.navigation_path = ra.result.navigation_path,
                      !.error_message = None,
                      !.verified = TRUE,
                      !.final_guidance = "none"]
    /\ job' = [job EXCEPT !.pc = "done", !.path = "ws_success"]
    /\ UNCHANGED <<requests, shim, downloads, bridge, probe, env, policy, observer, ra, jobs>>

\* job(): except WebSocketDisconnect / except Exception
WsAgentRaised ==
    /\ job.kind = "ws" /\ job.pc = "agent" /\ ra.pc = "raised"
    /\ IF ra.exc.cls = "WebSocketDisconnect"
       THEN /\ job' = [job EXCEPT !.pc = "done", !.path = "disconnect"]
            /\ UNCHANGED v
       ELSE /\ v' = [get_or_create_verification(v) EXCEPT
                        !.status = "FAILED", !.error_message = ra.exc.msg, !.verified = TRUE]
            /\ job' = [job EXCEPT !.pc = "done", !.path = "exception"]
    /\ UNCHANGED <<requests, shim, downloads, bridge, probe, env, policy, observer, ra, jobs>>

Init ==
    /\ env \in Environments
    /\ policy \in {"ok", "no_url"}
    /\ v = NoRecord
    /\ job = NoJob
    /\ observer = "none"
    /\ ra = IdleFrame
    /\ jobs = MaxJobs
    /\ probe = NoProbe
    /\ bridge = NoBridge
    /\ downloads = NoDownloads
    /\ shim = NoShim
    /\ requests = NoRequests

Next ==
    \/ request_verification
    \/ DeletePolicy
    \/ BgStart
    \/ BgAfterAgent
    \/ BgAgentRaised
    \/ ws_verify
    \/ ObserverDisconnect
    \/ WsLoad
    \/ WsAnnounce
    \/ WsAfterAgent
    \/ WsAgentRaised
    \/ RunAgent

Spec == Init /\ [][Next]_vars

(***************************************************************************)
(* The status decision applied on its own to every combination of matched, *)
(* needs_review and error_message.                                         *)
(***************************************************************************)
DecideErrorMessages ==
    {None, EmptyStr, <<WS>>, <<"boom">>, <<WS, "boom", WS>>,
     <<"POLICY_NOT_FOUND">>, <<WS, "POLICY_NOT_FOUND">>}

DecideInputs ==
    {Result(m, n, e, <<>>, <<>>, <<>>) :
        m \in MatchedValues, n \in BOOLEAN, e \in DecideErrorMessages}

DefaultEnv ==
    [IS_LINUX |-> TRUE, DISPLAY |-> FALSE, BROWSER_HEADLESS |-> TRUE,
     BROWSER_KEEP_OPEN |-> FALSE, BROWSER_LLM_MAX_RETRIES |-> MaxRetriesBound,
     BROWSER_MAX_SNAPSHOT_FAILURES |-> MaxSnapshotBound]

InitDecide ==
    /\ env = DefaultEnv
    /\ policy = "ok"
    /\ v = NoRecord
    /\ job = NoJob
    /\ observer = "none"
    /\ ra = IdleFrame
    /\ jobs = 0
    /\ probe \in {[fn |-> "decide", arg |-> r, out |-> NoDecision] : r \in DecideInputs}
    /\ bridge = NoBridge
    /\ downloads = NoDownloads
    /\ shim = NoShim
    /\ requests = NoRequests

ApplyDecide ==
    /\ probe.fn = "decide" /\ probe.out = NoDecision
    /\ probe' = [probe EXCEPT !.out = _decide_status_from_browser_result(probe.arg)]
    /\ UNCHANGED <<requests, shim, downloads, bridge, env, policy, v, job, observer, ra, jobs>>

SpecDecide == InitDecide /\ [][ApplyDecide]_vars

(***************************************************************************)
(* Properties.                                                             *)
(***************************************************************************)
RunEnded == ra.exit # "none"

Verified(result) ==
    /\ result.matched = "True"
    /\ ~result.needs_review
    /\ Strip(OrEmpty(result.error_message)) = EmptyStr

\* C1: whenever a job has persisted a status for an agent result (the
\* background job or the WebSocket job), a result that is not matched = true,
\* needs_review = false and without error message is persisted as FAILED, and
\* SUCCESS is persisted only for a result that is all three.
C1_SuccessOnlyIfVerified ==
    (job.pc = "done" /\ job.path \in {"decided", "ws_success"})
        => /\ (v.status = "SUCCESS" => Verified(ra.result))
           /\ (~Verified(ra.result) => v.status = "FAILED")

\* C2 (as stated): the decision is FAILED whenever matched is not the boolean
\* true, or needs_review is true, or error_message is a non-empty string, and
\* SUCCESS otherwise.
C2_FailedOnNonEmptyError ==
    (probe.fn = "decide" /\ probe.out # NoDecision)
        => probe.out.status =
             IF /\ probe.arg.matched = "True"
                /\ ~probe.arg.needs_review
                /\ OrEmpty(probe.arg.error_message) = EmptyStr
             THEN "SUCCESS" ELSE "FAILED"

\* C2 (amended): the decision is FAILED whenever matched is not the boolean
\* true, or needs_review is true, or error_message is non-empty after its
\* surrounding whitespace is stripped, and SUCCESS for the remaining inputs.
C2_FailedUnlessVerified ==
    (probe.fn = "decide" /\ probe.out # NoDecision)
        => probe.out.status = IF Verified(probe.arg) THEN "SUCCESS" ELSE "FAILED"

\* the string "true" is not the boolean true: decided FAILED
C2_WitnessStringTrue ==
    /\ probe.fn = "decide" /\ probe.out.status = "FAILED"
    /\ probe.arg.matched = "str:true"
    /\ ~probe.arg.needs_review
    /\ probe.arg.error_message = None

\* C3: a job that set the record to PENDING and has ended leaves the record
\* SUCCESS or FAILED, whatever the outcome of the run (the liveness claim in
\* the form a finite run refutes: nothing changes the record after the job).
C3_TerminalWhenJobEnded ==
    (job.pc = "done" /\ job.kind \in {"rest", "ws"}
       /\ ~(job.kind = "ws" /\ job.path = "policy_missing"))
        => v.status \in {"SUCCESS", "FAILED"}

\* C4: _run_agent never leaves by an exception, and its timeout result has
\* matched = None, needs_review = true and an error_message naming the
\* configured duration.
C4_NeverRaises ==
    /\ ra.pc # "raised"
    /\ ra.exit = "timeout" =>
         /\ ra.result.matched = "None"
         /\ ra.result.needs_review
         /\ Contains(ra.result.error_message, ToString(BROWSER_MAX_TIME_SEC))

RECURSIVE SumSeq(_)
SumSeq(q) == IF q = <<>> THEN 0 ELSE Head(q) + SumSeq(Tail(q))

\* C5: the sleep before overload retry number k+1 is base_backoff * 2^k, at
\* most max_retries such retries are made, and a run in which k overload
\* failures are followed by a success has slept base_backoff * (2^k - 1) and
\* returns the parsed result of that success.
C5_BackoffSchedule ==
    RunEnded =>
        /\ \A i \in 1..Len(ra.slept) : ra.slept[i] = 2 ^ (i - 1)
        /\ Len(ra.slept) <= ra.max_retries
        /\ ra.history = "history" =>
             /\ ra.exit = "parsed"
             /\ SumSeq(ra.slept) = 2 ^ Len(ra.slept) - 1

\* C6: a run in which every agent.run() call raises a snapshot failure, with
\* enough attempts for the threshold, ends with the dedicated circuit-break
\* result after exactly threshold calls.
C6_CircuitBreakAtThreshold ==
    (/\ RunEnded /\ observer # "disconnected"
     /\ ra.history = "None" /\ ra.errors # <<>>
     /\ \A i \in 1..Len(ra.errors) : _is_browser_snapshot_timeout(ra.errors[i])
     /\ ra.max_snapshot_failures <= ra.max_retries + 1)
        => /\ ra.exit = "circuit_break"
           /\ ra.result = CircuitBreakResult
           /\ Len(ra.runs) = ra.max_snapshot_failures

\* C7: a snapshot failure that leaves the count below the threshold, with
\* attempts remaining, does not end the run with a failure result.
C7_BelowThresholdContinues ==
    ~(/\ ra.exit = "agent_failed" /\ observer # "disconnected"
      /\ ra.errors # <<>>
      /\ _is_browser_snapshot_timeout(ra.errors[Len(ra.errors)])
      /\ ra.snapshot_failures < ra.max_snapshot_failures
      /\ ra.attempt < ra.max_retries)

\* C8: a run that prepared the headless fallback did so once and executed
\* agent.run() in headless mode before it ended.
C8_FallbackIsRun ==
    (RunEnded /\ ra.fallbacks >= 1 /\ observer # "disconnected")
        => /\ ra.fallbacks = 1
           /\ \E i \in 1..Len(ra.runs) : ra.runs[i]

\* C9: when _run_agent has returned or raised, every browser session it
\* created is closed.
C9_SessionsClosed ==
    ra.pc \in {"returned", "raised"}
        => \A i \in 1..Len(ra.sessions) : ra.sessions[i] = "closed"

\* C10: when _run_agent has returned, no screenshot pump and no log pump it
\* started is still running.
C10_NoTaskOutlivesRun ==
    ra.pc = "returned"
        => /\ \A i \in 1..Len(ra.shot_tasks) : ra.shot_tasks[i] = "cancelled"
           /\ ra.ws_log_pump_task # "running"

\* C11: with the observer disconnected, no emission of a run raises: the run
\* never leaves _run_agent by the WebSocketDisconnect of a progress callback.
C11_EmissionsDropped ==
    ~(ra.pc = "raised" /\ ra.exc = WebSocketDisconnect)

(***************************************************************************)
(* The logging -> WebSocket bridge of a run: _WSQueueLogHandler puts the   *)
(* formatted records on ws_log_queue, _pump_ws_logs takes them off and     *)
(* awaits log_callback for each.                                           *)
(*   pump     "none", "get" (awaiting queue.get), "send" (awaiting         *)
(*            log_callback(line)), "cancelled"                             *)
(*   logged   records emitted by the loggers of the run                    *)
(*   sent     lines the peer received;  dropped  lines whose send failed   *)
(***************************************************************************)
LogLines == {"step", "action"}

\* _WSQueueLogHandler.emit: put_nowait on asyncio.Queue(), maxsize 0
BridgeEmit ==
    /\ bridge.pump \in {"get", "send"}
    /\ bridge.logged < MaxLogLines
    /\ \E msg \in LogLines :
         bridge' = [bridge EXCEPT !.ws_log_queue = Append(@, msg), !.logged = @ + 1]
    /\ UNCHANGED <<requests, shim, downloads, probe, env, policy, v, job, observer, ra, jobs>>

\* line = await ws_log_queue.get()
PumpGet ==
    /\ bridge.pump = "get"
    /\ bridge.ws_log_queue # <<>>
    /\ bridge' = [bridge EXCEPT !.pump = "send", !.line = Head(bridge.ws_log_queue),
                                !.ws_log_queue = Tail(@)]
    /\ UNCHANGED <<requests, shim, downloads, probe, env, policy, v, job, observer, ra, jobs>>

\* await log_callback(line) completes, or raises and the line is given up
PumpSend ==
    /\ bridge.pump = "send"
    /\ bridge' = IF observer = "connected"
                 THEN [bridge EXCEPT !.pump = "get", !.line = "", !.sent = @ + 1]
                 ELSE [bridge EXCEPT !.pump = "get", !.line = "", !.dropped = @ + 1]
    /\ UNCHANGED <<requests, shim, downloads, probe, env, policy, v, job, observer, ra, jobs>>

\* the peer closes the connection during the run
BridgeDisconnect ==
    /\ bridge.pump \in {"get", "send"}
    /\ observer = "connected"
    /\ observer' = "disconnected"
    /\ UNCHANGED <<requests, shim, downloads, bridge, probe, env, policy, v, job, ra, jobs>>

\* finally: ws_log_pump_task.cancel() and the handler is removed
PumpCancel ==
    /\ bridge.pump \in {"get", "send"}
    /\ bridge' = [bridge EXCEPT !.pump = "cancelled", !.line = ""]
    /\ UNCHANGED <<requests, shim, downloads, probe, env, policy, v, job, observer, ra, jobs>>

InitLogBridge ==
    /\ env = DefaultEnv
    /\ policy = "ok"
    /\ v = NoRecord
    /\ job = NoJob
    /\ observer = "connected"
    /\ ra = IdleFrame
    /\ jobs = 0
    /\ probe = NoProbe
    /\ bridge = [NoBridge EXCEPT !.pump = "get"]
    /\ downloads = NoDownloads
    /\ shim = NoShim
    /\ requests = NoRequests

NextLogBridge ==
    \/ BridgeEmit
    \/ PumpGet
    \/ PumpSend
    \/ BridgeDisconnect
    \/ PumpCancel

SpecLogBridge == InitLogBridge /\ [][NextLogBridge]_vars

\* lines produced by the run and not delivered to the observer
Backlog == Len(bridge.ws_log_queue) + (IF bridge.pump = "send" THEN 1 ELSE 0)

\* C12: the number of log lines produced and not yet delivered stays below a
\* bound that does not depend on how many lines the run produces: it never
\* reaches the number of lines produced by the longest run.
C12_BacklogBounded == Backlog < MaxLogLines

(***************************************************************************)
(* _safe_json_loads applied on its own to every text of at most MaxTextLen *)
(* tokens: braces, fences, a member, a member whose value holds a          *)
(* not-found phrase, prose with and without such a phrase.                 *)
(***************************************************************************)
ParseTokens ==
    {LB, RB, Fence, Prose, HintProse,
     Member("matched", "true"), Member("evidence_text", "no matching data")}

RECURSIVE TextsOfLen(_)
TextsOfLen(n) ==
    IF n = 0 THEN {<<>>}
    ELSE {Append(t, tok) : t \in TextsOfLen(n - 1), tok \in ParseTokens}

ParseInputs == UNION {TextsOfLen(n) : n \in 0..MaxTextLen}

InitParse ==
    /\ env = DefaultEnv
    /\ policy = "ok"
    /\ v = NoRecord
    /\ job = NoJob
    /\ observer = "none"
    /\ ra = IdleFrame
    /\ jobs = 0
    /\ probe \in {[fn |-> "parse", arg |-> t, out |-> RawText] : t \in ParseInputs}
    /\ bridge = NoBridge
    /\ downloads = NoDownloads
    /\ shim = NoShim
    /\ requests = NoRequests

ApplyParse ==
    /\ probe.fn = "parse"
    /\ probe' = [probe EXCEPT !.fn = "parsed", !.out = _safe_json_loads(probe.arg)]
    /\ UNCHANGED <<requests, shim, downloads, bridge, env, policy, v, job, observer, ra, jobs>>

SpecParse == InitParse /\ [][ApplyParse]_vars

\* C13: direct decode, then the fenced block, then the outermost brace span,
\* and the not-found result only for a text none of the three decodes: a text
\* whose fenced block or brace span decodes to an object yields that object,
\* with or without a not-found phrase in the text.
C13_DecodeBeforeNotFound ==
    probe.fn = "parsed" =>
        LET text == probe.arg
            fenced == FencedCandidate(text)
            brace == BraceCandidate(text)
        IN  probe.out =
              IF IsJson(text)
              THEN (IF IsJsonObject(text) THEN Dict(Inner(text)) ELSE RawText)
              ELSE IF fenced # <<>> /\ IsJsonObject(fenced) THEN Dict(Inner(fenced))
              ELSE IF brace # <<>> /\ IsJsonObject(brace) THEN Dict(Inner(brace))
              ELSE IF HasHint(text) THEN Dict(NotFoundMembers)
              ELSE RawText

\* no strategy of _safe_json_loads decodes the text
NotDecodable(text) ==
    /\ ~IsJson(text)
    /\ ~(FencedCandidate(text) # <<>> /\ IsJson(FencedCandidate(text)))
    /\ ~(BraceCandidate(text) # <<>> /\ IsJson(BraceCandidate(text)))

\* the background job persisted the decision for the result of the run
BgDecided == job.kind = "rest" /\ job.pc = "done" /\ job.path = "decided"

VerifiedWithDocuments(text) ==
    /\ IsJsonObject(text)
    /\ Get(Inner(text), "matched") = "true"
    /\ Get(Inner(text), "needs_review") = "false"
    /\ Get(Inner(text), "error_message") = "null"
    /\ Get(Inner(text), "required_documents") = "file,phone"

\* C15: for such a final text the result of _run_agent lists the file name
\* only, and the background job decides and persists SUCCESS.
C15_DocumentsCleanedThenSuccess ==
    (ra.pc = "returned" /\ ra.exit = "parsed" /\ VerifiedWithDocuments(ra.final_text))
        => /\ ra.result.required_documents = <<FileDoc>>
           /\ _decide_status_from_browser_result(ra.result).status = "SUCCESS"
           /\ BgDecided => v.status = "SUCCESS"

(***************************************************************************)
(* _clean_required_documents applied on its own to every list of at most   *)
(* MaxDocs entries.                                                        *)
(***************************************************************************)
\* a file name without a document word; a bare street address; a phone
\* number and an address next to a document word; a file name holding a
\* phone number; a document word alone; a remark; whitespace
FormFileDoc == DocEntry("application_form.pdf", TRUE, FALSE, FALSE, FALSE, FALSE)
AddressDoc == DocEntry("Sejong-daero 110", FALSE, FALSE, FALSE, TRUE, FALSE)
PhoneNoteDoc == DocEntry("documents desk 02-123-4567", FALSE, FALSE, TRUE, FALSE, TRUE)
AddressNoteDoc == DocEntry("certificate, issued at Sejong-daero 110", FALSE, FALSE, FALSE, TRUE, TRUE)
TelFileDoc == DocEntry("TEL 02-123-4567.pdf", TRUE, TRUE, TRUE, FALSE, FALSE)
CertificateDoc == DocEntry("certificate of residence", FALSE, FALSE, FALSE, FALSE, TRUE)
RemarkDoc == DocEntry("bring a pen", FALSE, FALSE, FALSE, FALSE, FALSE)
BlankDoc == DocEntry("", FALSE, FALSE, FALSE, FALSE, FALSE)

DocEntries ==
    {FileDoc, FormFileDoc, PhoneDoc, AddressDoc, PhoneNoteDoc, AddressNoteDoc,
     TelFileDoc, CertificateDoc, RemarkDoc, BlankDoc}

RECURSIVE DocListsOfLen(_)
DocListsOfLen(n) ==
    IF n = 0 THEN {<<>>}
    ELSE {Append(l, d) : l \in DocListsOfLen(n - 1), d \in DocEntries}

InitDocs ==
    /\ env = DefaultEnv
    /\ policy = "ok"
    /\ v = NoRecord
    /\ job = NoJob
    /\ observer = "none"
    /\ ra = IdleFrame
    /\ jobs = 0
    /\ probe \in {[fn |-> "clean", arg |-> l, out |-> <<>>] :
                    l \in UNION {DocListsOfLen(n) : n \in 0..MaxDocs}}
    /\ bridge = NoBridge
    /\ downloads = NoDownloads
    /\ shim = NoShim
    /\ requests = NoRequests

ApplyDocs ==
    /\ probe.fn = "clean"
    /\ probe' = [probe EXCEPT !.fn = "cleaned", !.out = _clean_required_documents(probe.arg)]
    /\ UNCHANGED <<requests, shim, downloads, bridge, env, policy, v, job, observer, ra, jobs>>

SpecDocs == InitDocs /\ [][ApplyDocs]_vars

InSeq(x, q) == \E i \in 1..Len(q) : q[i] = x

\* C16: an entry that looks like a phone number or a street address is in
\* the output exactly if it also looks like a file name or holds a document
\* word; a bare phone number and a bare address are never in the output; a
\* file name is always in the output.
C16_NoiseStrippedUnlessDocument ==
    probe.fn = "cleaned" =>
        \A i \in 1..Len(probe.arg) :
            LET d == probe.arg[i]
            IN  /\ (d.phone \/ d.address) =>
                     (InSeq(d, probe.out) <=> (d.file_ext \/ d.doc_word))
                /\ d \in {PhoneDoc, AddressDoc} => ~InSeq(d, probe.out)
                /\ d.file_ext => InSeq(d, probe.out)

(***************************************************************************)
(* The repair pipeline _repair_result.  The texts of the record are        *)
(* sequences of words; the Korean words of the source are written in       *)
(* romanised or translated form:                                           *)
(*   "no restriction"  jehan eopseum, the default of _normalize_none_value *)
(*   "eopseum"         the default of the field other                      *)
(*   "residence", "outside the district", "region", "address"              *)
(*                     geoju, gwanoe, jiyeok, juso                         *)
(*   "online", "visit", "mail", "mixed"                                    *)
(*                     onlain, bangmun, upyeon, honhap                     *)
(*   "no matter"       sanggwaneopseum                                     *)
(***************************************************************************)
NoRestriction == <<"no restriction">>
NoneWord == <<"eopseum">>

NONE_VALUES ==
    {NoneWord, <<"there is none">>, <<"not applicable">>, <<"notapplicable">>,
     <<"irrelevant">>, <<"does not apply">>, <<"-">>, <<"x">>, <<"X">>}

\* str.lower() of a word
LowerWord(w) ==
    CASE w = "None" -> "none_"
      [] w = "NONE" -> "none_"
      [] w = "N/A" -> "n/a"
      [] w = "X" -> "x"
      [] OTHER -> w

Lower(s) == [i \in 1..Len(s) |-> LowerWord(s[i])]

_norm_none_or_str(value) ==
    IF value = None THEN None
    ELSE IF Strip(value) = EmptyStr THEN None ELSE Strip(value)

\* the normalisation that tests the value as given and returns it stripped
NormalizeTestingRaw(value, default) ==
    LET s == Strip(OrEmpty(_norm_none_or_str(value)))
    IN  IF s = EmptyStr THEN default
        ELSE IF Lower(s) \in {<<"none">>, <<"n/a">>} THEN default
        ELSE IF OrEmpty(value) \in NONE_VALUES THEN default ELSE s

_normalize_none_value(value, default) ==
    LET s == Strip(OrEmpty(_norm_none_or_str(value)))
    IN  IF s = EmptyStr THEN default
        ELSE IF Lower(s) \in {<<"none">>, <<"n/a">>} THEN default
        ELSE IF s \in NONE_VALUES THEN default ELSE s

(***************************************************************************)
(* The evidence text: its lines, each with what the patterns of the        *)
(* source find in it: kind "age" (a match of _AGE_HINT_RE, text: the       *)
(* match), "region" (the field name jiyeok-gijun, text: the rest of the    *)
(* field), "phone" (a match of _PHONE_RE), "text" (none of these).         *)
(***************************************************************************)
Line(kind, text) == [kind |-> kind, text |-> text]

FirstOfKind(evidence, kind) ==
    LET At == {i \in 1..Len(evidence) : evidence[i].kind = kind}
    IN  IF At = {} THEN None
        ELSE evidence[CHOOSE i \in At : \A j \in At : i <= j].text

_infer_age_from_evidence(evidence) ==
    IF FirstOfKind(evidence, "age") = None THEN None
    ELSE Strip(FirstOfKind(evidence, "age"))

_extract_field_line(evidence, field_name) ==
    IF FirstOfKind(evidence, field_name) = None THEN None
    ELSE Strip(FirstOfKind(evidence, field_name))

\* a value that is None or "" is false
Truthy(x) == x # None /\ x # EmptyStr

_merge_region_from_evidence(criteria_region, evidence) ==
    LET ev == _extract_field_line(evidence, "region")
        cur == Strip(OrEmpty(criteria_region))
    IN  IF ~Truthy(ev) THEN criteria_region
        ELSE IF cur = EmptyStr \/ _normalize_none_value(cur, NoRestriction) = NoRestriction
        THEN ev
        ELSE IF Contains(ev, "no matter") /\ ~Contains(cur, "no matter") THEN ev
        ELSE IF Contains(ev, "|") /\ ~Contains(cur, "|") THEN ev
        ELSE criteria_region

ResidencyKeywords == {"residence", "outside the district", "region", "address"}

HasResidencyKeyword(age) == \E i \in 1..Len(age) : age[i] \in ResidencyKeywords

Criteria(age, region, income, employment, other) ==
    [age |-> age, region |-> region, income |-> income,
     employment |-> employment, other |-> other]

RepairRecord(criteria, evidence_text, required_documents, apply_channel, tel) ==
    [criteria |-> criteria, evidence_text |-> evidence_text,
     required_documents |-> required_documents, apply_channel |-> apply_channel,
     tel |-> tel]

_clean_documents(result) ==
    [result EXCEPT !.required_documents = _clean_required_documents(@)]

_fix_criteria_mapping(result) ==
    LET criteria0 == result.criteria
        evidence == result.evidence_text
        age == _norm_none_or_str(criteria0.age)
        region == _norm_none_or_str(criteria0.region)
        describes_residency == Truthy(age) /\ HasResidencyKeyword(age)
        criteria1 ==
            IF describes_residency
            THEN [criteria0 EXCEPT
                    !.region = IF ~Truthy(region)
                                  \/ _normalize_none_value(region, NoRestriction) = NoRestriction
                               THEN age ELSE @,
                    !.age = NoRestriction]
            ELSE criteria0
        inferred_age == _infer_age_from_evidence(evidence)
        cur_age == _norm_none_or_str(criteria1.age)
        criteria2 ==
            IF Truthy(inferred_age)
               /\ (~Truthy(cur_age)
                   \/ _normalize_none_value(cur_age, NoRestriction) = NoRestriction)
            THEN [criteria1 EXCEPT !.age = inferred_age]
            ELSE criteria1
        merged_region ==
            _merge_region_from_evidence(_norm_none_or_str(criteria2.region), evidence)
        criteria3 ==
            IF Truthy(merged_region)
            THEN [criteria2 EXCEPT !.region = Strip(merged_region)]
            ELSE criteria2
    IN  [result EXCEPT !.criteria =
            Criteria(_normalize_none_value(criteria3.age, NoRestriction),
                     _normalize_none_value(criteria3.region, NoRestriction),
                     _normalize_none_value(criteria3.income, NoRestriction),
                     _normalize_none_value(criteria3.employment, NoRestriction),
                     _normalize_none_value(criteria3.other, NoneWord))]

\* s.replace(" ", "")
RemoveSpaces(s) == SelectSeq(s, LAMBDA w : w # WS)

\* a channel word in the text without its spaces, in one piece or in two
HasWord(s2, word, first, second) ==
    \/ Contains(s2, word)
    \/ \E i \in 1..(Len(s2) - 1) : s2[i] = first /\ s2[i + 1] = second

_normalize_apply_channel(value) ==
    LET s == _norm_none_or_str(value)
        s2 == RemoveSpaces(OrEmpty(s))
        has_online == HasWord(s2, "online", "on", "line")
        has_visit == HasWord(s2, "visit", "vi", "sit")
        has_mail == HasWord(s2, "mail", "ma", "il")
        kinds == (IF has_online THEN 1 ELSE 0) + (IF has_visit THEN 1 ELSE 0)
                 + (IF has_mail THEN 1 ELSE 0)
    IN  IF ~Truthy(s) THEN None
        ELSE IF kinds >= 2 THEN <<"mixed">>
        ELSE IF has_online THEN <<"online">>
        ELSE IF has_visit THEN <<"visit">>
        ELSE IF has_mail THEN <<"mail">>
        ELSE s

_normalize_fields(result) ==
    [result EXCEPT !.apply_channel = _normalize_apply_channel(@)]

_enrich_contact(result) ==
    IF ~Truthy(_norm_none_or_str(result.tel))
       /\ FirstOfKind(result.evidence_text, "phone") # None
    THEN [result EXCEPT !.tel = FirstOfKind(result.evidence_text, "phone")]
    ELSE result

_repair_result(result) ==
    _enrich_contact(_normalize_fields(_fix_criteria_mapping(_clean_documents(result))))

(***************************************************************************)
(* The repair pipeline applied to a record parsed from the agent's final   *)
(* text, once and once more.                                               *)
(***************************************************************************)
AgeTexts ==
    {None, <<WS>>, <<WS, "-">>, <<"N/A">>, <<"age 19 to 34">>,
     <<"residence", "in the city">>, <<WS, "applicants with an", "address", "in Seoul", WS>>}

RegionTexts == {None, <<"x">>, NoRestriction, <<"Seoul">>}

IncomeTexts == {None, <<"None">>, <<"median income 150% or less">>}

EmploymentTexts == {<<"irrelevant">>, <<"unemployed">>}

OtherTexts == {None, NoneWord, <<WS, "-">>, <<"first application">>}

EvidenceTexts ==
    {<<>>,
     <<Line("age", <<"age 19 or older">>)>>,
     <<Line("region", <<"Seoul", "|", "Gyeonggi">>)>>,
     <<Line("region", <<"no matter">>), Line("phone", <<"02-123-4567">>)>>,
     <<Line("text", <<"notice">>), Line("age", <<"age 39 or younger">>),
       Line("region", <<WS>>)>>}

ChannelTexts ==
    {None, <<WS>>, <<"online">>, <<"on", WS, "line", "application">>,
     <<"visit", "or", "mail">>, <<"phone">>, <<"mixed">>}

TelTexts == {None, <<"031-000-0000">>}

DocumentLists == {<<>>, <<FileDoc, PhoneDoc, FileDoc>>}

RepairInputs ==
    {RepairRecord(Criteria(a, r, i, e, o), ev, d, c, t) :
        a \in AgeTexts, r \in RegionTexts, i \in IncomeTexts, e \in EmploymentTexts,
        o \in OtherTexts, ev \in EvidenceTexts, d \in DocumentLists,
        c \in ChannelTexts, t \in TelTexts}

InitRepair ==
    /\ env = DefaultEnv
    /\ policy = "ok"
    /\ v = NoRecord
    /\ job = NoJob
    /\ observer = "none"
    /\ ra = IdleFrame
    /\ jobs = 0
    /\ probe \in {[fn |-> "repair", arg |-> r, out |-> r, out2 |-> r] : r \in RepairInputs}
    /\ bridge = NoBridge
    /\ downloads = NoDownloads
    /\ shim = NoShim
    /\ requests = NoRequests

ApplyRepair ==
    /\ probe.fn = "repair"
    /\ probe' = [probe EXCEPT !.fn = "repaired", !.out = _repair_result(probe.arg)]
    /\ UNCHANGED <<requests, shim, downloads, bridge, env, policy, v, job, observer, ra, jobs>>

ApplyRepairAgain ==
    /\ probe.fn = "repaired"
    /\ probe' = [probe EXCEPT !.fn = "repaired_twice", !.out2 = _repair_result(probe.out)]
    /\ UNCHANGED <<requests, shim, downloads, bridge, env, policy, v, job, observer, ra, jobs>>

NextRepair == ApplyRepair \/ ApplyRepairAgain

SpecRepair == InitRepair /\ [][NextRepair]_vars

\* C17: _fix_criteria_mapping moves the age text to region exactly when the
\* age text holds a residency keyword, and the age of the repaired record is
\* then "no restriction"; an age text without a residency keyword is not
\* moved to region.
C17_AgeMovedExactlyOnResidency ==
    probe.fn = "repaired" =>
        LET age == _norm_none_or_str(probe.arg.criteria.age)
            residency == Truthy(age) /\ HasResidencyKeyword(age)
        IN  /\ residency =>
                 /\ probe.out.criteria.region = age
                 /\ probe.out.criteria.age = NoRestriction
            /\ (Truthy(age) /\ ~residency) => probe.out.criteria.region # age

CanonicalChannels == {<<"online">>, <<"visit">>, <<"mail">>, <<"mixed">>}

\* C19: after repair the apply_channel of a record whose channel text was
\* not empty is one of online, visit, mail, mixed, and it is mixed when the
\* text holds two or more different channel words.
C19_ChannelCanonical ==
    probe.fn = "repaired" =>
        LET s == _norm_none_or_str(probe.arg.apply_channel)
            words == {w \in {"online", "visit", "mail"} : Contains(OrEmpty(s), w)}
        IN  Truthy(s) =>
                /\ probe.out.apply_channel \in CanonicalChannels
                /\ Cardinality(words) >= 2 => probe.out.apply_channel = <<"mixed">>

(***************************************************************************)
(* The choice between the hinted and the exploratory run, for every stored *)
(* navigation path up to a length, in verify_policy_sync and in the job of *)
(* ws_verify.                                                              *)
(***************************************************************************)
MaxPathLen == 3

AutoInjectedStep == NavStep("open", "auto-injected")

PathSteps ==
    {AutoInjectedStep, NavStep("open", "entry"), NavStep("click", "tab"),
     NavStep("click", "auto-injected")}

RECURSIVE PathsOfLen(_)
PathsOfLen(n) ==
    IF n = 0 THEN {<<>>}
    ELSE {Append(p, s) : p \in PathsOfLen(n - 1), s \in PathSteps}

InitHint ==
    /\ env = DefaultEnv
    /\ policy = "ok"
    /\ v = NoRecord
    /\ job = NoJob
    /\ observer = "none"
    /\ ra = IdleFrame
    /\ jobs = 0
    /\ probe \in {[fn |-> "path", arg |-> p, out |-> "none"] :
                    p \in UNION {PathsOfLen(n) : n \in 0..MaxPathLen}}
    /\ bridge = NoBridge
    /\ downloads = NoDownloads
    /\ shim = NoShim
    /\ requests = NoRequests

\* verify_policy_sync: verify_policy_with_playwright_shortcut or
\* verify_policy_with_agent
ApplyVerifyPolicySync ==
    /\ probe.fn = "path"
    /\ probe' = [probe EXCEPT !.fn = "verify_policy_sync",
                              !.out = IF usable_hint(probe.arg) THEN "hint" ELSE "explore"]
    /\ UNCHANGED <<requests, shim, downloads, bridge, env, policy, v, job, observer, ra, jobs>>

\* job() of ws_verify: the same choice
ApplyWsJob ==
    /\ probe.fn = "path"
    /\ probe' = [probe EXCEPT !.fn = "ws_verify",
                              !.out = IF ws_usable_hint(probe.arg) THEN "hint" ELSE "explore"]
    /\ UNCHANGED <<requests, shim, downloads, bridge, env, policy, v, job, observer, ra, jobs>>

NextHint == ApplyVerifyPolicySync \/ ApplyWsJob

SpecHint == InitHint /\ [][NextHint]_vars

\* C20: in verify_policy_sync and in the WebSocket job, a stored path that
\* is empty or is the single auto-injected open entry is rejected and the
\* run explores; a path of two or more entries, or a single entry that is
\* not auto-injected, is accepted and the run is hinted.
C20_UsablePathDecidesMode ==
    probe.fn \in {"verify_policy_sync", "ws_verify"} =>
        LET p == probe.arg
        IN  /\ (Len(p) = 0 \/ p = <<AutoInjectedStep>>) => probe.out = "explore"
            /\ (Len(p) >= 2 \/ (Len(p) = 1 /\ p[1].note # "auto-injected")) =>
                   probe.out = "hint"

(***************************************************************************)
(* Consecutive verifications of one policy: the jobs of Spec, one after    *)
(* the other, in one environment.                                          *)
(***************************************************************************)
MaxRuns == 2

InitRerun ==
    /\ env = DefaultEnv
    /\ policy = "ok"
    /\ v = NoRecord
    /\ job = NoJob
    /\ observer = "none"
    /\ ra = IdleFrame
    /\ jobs = MaxRuns
    /\ probe = NoProbe
    /\ bridge = NoBridge
    /\ downloads = NoDownloads
    /\ shim = NoShim
    /\ requests = NoRequests

SpecRerun == InitRerun /\ [][Next]_vars

\* C21: when the stored navigation_path is only the entry step that
\* _run_agent injected into an empty path of the previous run, the next
\* verification runs the exploration, not the hinted run.
C21_InjectedPathExplored ==
    (job.pc = "agent" /\ v.navigation_path = EntryPath) => job.mode = "explore"

\* C22: a verification that ends FAILED leaves the stored navigation_path
\* as it was before the run.
C22_FailedRunKeepsPath ==
    [][(job.pc # "done" /\ job'.pc = "done" /\ v'.status = "FAILED")
          => v'.navigation_path = v.navigation_path]_vars

\* C23: a failure of the final guidance generation does not change the
\* outcome of run_verification_job_sync: the persisted status is the status
\* decided from the agent result, and the record is committed with the facts
\* and a guidance (the placeholder when the generation failed).
C23_GuidanceFailureKeepsOutcome ==
    (job.kind = "rest" /\ job.pc = "done"
        /\ job.path \in {"decided", "guidance_exception"}) =>
        /\ v.status = _decide_status_from_browser_result(ra.result).status
        /\ v.final_guidance \in {"generated", "placeholder"}

\* C24: the error_message persisted with a FAILED verification holds no
\* stack trace, also when FAILED comes from an exception in the orchestrator.
C24_NoTraceInErrorMessage ==
    (job.pc = "done" /\ v.verified /\ v.status = "FAILED") =>
        /\ v.error_message # None
        /\ ~Contains(v.error_message, "Traceback (most recent call last):")

(***************************************************************************)
(* The downloads directory.  ensure_download_dir returns the one directory *)
(* backend/data/downloads for every run; _run_agent lists it before and    *)
(* after the agent run; extract_from_downloads reads the listed files and  *)
(* unpacks archives into _extracted/<verification_id>.                     *)
(*   dir         the entries of the downloads directory                    *)
(*   extracted   the files under _extracted, each with its verification id *)
(*   run[r]      one verification run: its position, its verification id,  *)
(*               pre_files, downloaded_files, the artifacts, and own: the  *)
(*               files its own browser downloaded                          *)
(***************************************************************************)
MaxFileRuns == 2

FileName(stem, ext) == [stem |-> stem, ext |-> ext]

DownloadableFiles ==
    {FileName("notice", ".PDF"), FileName("forms", ".zip"), FileName("form", ".hwp")}

\* the directory _extracted inside the downloads directory
ExtractedDirEntry == FileName("_extracted", "")

InnerZip == FileName("inner", ".zip")

\* the files inside an archive
ZipMembers(f) ==
    IF f = FileName("forms", ".zip") THEN {FileName("guide", ".txt"), InnerZip}
    ELSE IF f = InnerZip THEN {FileName("deep", ".pdf")}
    ELSE {}

\* os.path.splitext(name)[1].lower()
LowerExt(f) == IF f.ext = ".PDF" THEN ".pdf" ELSE f.ext

\* downloads_dir, and os.path.join(downloads_dir, "_extracted", str(verification_id))
DownloadsDir == <<"downloads">>
ExtractDir(verification_id) == <<"downloads", "_extracted", verification_id>>

PathOf(where, file) == [where |-> where, file |-> file]

SourceType(f) ==
    CASE LowerExt(f) \in {".txt", ".md", ".csv", ".log"} -> "text"
      [] LowerExt(f) = ".pdf" -> "pdf"
      [] LowerExt(f) \in {".png", ".jpg", ".jpeg"} -> "image"
      [] LowerExt(f) \in {".hwp", ".hwpx"} -> "hwp"
      [] OTHER -> "file"

ExtractedArtifact(p) ==
    [name |-> p.file, path |-> p, source_type |-> SourceType(p.file)]

\* extract_from_downloads: the files under _extracted afterwards, and the
\* artifacts (max_files = 30 is not reached by the files of the model)
ExtractedAfter(dir, extracted, downloaded_files, verification_id) ==
    LET paths == {f \in downloaded_files : f \in dir /\ f # ExtractedDirEntry}
        zips == {f \in paths : LowerExt(f) = ".zip"}
    IN  extracted \cup {PathOf(ExtractDir(verification_id), m) : m \in UNION {ZipMembers(z) : z \in zips}}

extract_from_downloads(dir, extracted, downloaded_files, verification_id) ==
    LET paths == {f \in downloaded_files : f \in dir /\ f # ExtractedDirEntry}
        after == ExtractedAfter(dir, extracted, downloaded_files, verification_id)
        all_paths == {PathOf(DownloadsDir, f) : f \in paths}
                     \cup {p \in after : p.where = ExtractDir(verification_id)}
    IN  {ExtractedArtifact(p) : p \in all_paths}

IdleRun ==
    [pc |-> "idle", verification_id |-> 0, pre_files |-> {}, downloaded_files |-> {},
     own |-> {}, artifacts |-> {}]

FileRuns == 1..MaxFileRuns

\* _run_agent: pre_files = _list_files_safe(downloads_dir)
ListPreFiles(r) ==
    /\ downloads.run[r].pc = "idle"
    /\ \E id \in FileRuns :
         downloads' = [downloads EXCEPT !.run[r] =
                          [@ EXCEPT !.pc = "agent", !.verification_id = id,
                                    !.pre_files = downloads.dir]]
    /\ UNCHANGED <<requests, shim, bridge, probe, env, policy, v, job, observer, ra, jobs>>

\* the browser of the run saves a file to downloads_path
DownloadFile(r) ==
    /\ downloads.run[r].pc = "agent"
    /\ \E f \in DownloadableFiles \ downloads.dir :
         downloads' = [downloads EXCEPT !.dir = @ \cup {f}, !.run[r].own = @ \cup {f}]
    /\ UNCHANGED <<requests, shim, bridge, probe, env, policy, v, job, observer, ra, jobs>>

\* _run_agent: post_files, new_files, downloaded_files
ListPostFiles(r) ==
    /\ downloads.run[r].pc = "agent"
    /\ downloads' = [downloads EXCEPT !.run[r] =
                        [@ EXCEPT !.pc = "extract",
                                  !.downloaded_files = downloads.dir \ downloads.run[r].pre_files]]
    /\ UNCHANGED <<requests, shim, bridge, probe, env, policy, v, job, observer, ra, jobs>>

\* run_verification_job_sync: extract_from_downloads, called when
\* downloaded_files is not empty
ExtractArtifacts(r) ==
    LET run == downloads.run[r]
    IN  /\ run.pc = "extract"
        /\ downloads' =
             IF run.downloaded_files = {}
             THEN [downloads EXCEPT !.run[r].pc = "done"]
             ELSE [downloads EXCEPT
                     !.dir = @ \cup {ExtractedDirEntry},
                     !.extracted = ExtractedAfter(downloads.dir, @, run.downloaded_files,
                                                  run.verification_id),
                     !.run[r] = [@ EXCEPT
                         !.pc = "done",
                         !.artifacts = extract_from_downloads(downloads.dir, downloads.extracted,
                                           run.downloaded_files, run.verification_id)]]
        /\ UNCHANGED <<requests, shim, bridge, probe, env, policy, v, job, observer, ra, jobs>>

InitFiles ==
    /\ env = DefaultEnv
    /\ policy = "ok"
    /\ v = NoRecord
    /\ job = NoJob
    /\ observer = "none"
    /\ ra = IdleFrame
    /\ jobs = 0
    /\ probe = NoProbe
    /\ bridge = NoBridge
    /\ downloads = [NoDownloads EXCEPT !.run = [r \in FileRuns |-> IdleRun]]
    /\ shim = NoShim
    /\ requests = NoRequests

NextFiles ==
    \E r \in FileRuns :
        ListPreFiles(r) \/ DownloadFile(r) \/ ListPostFiles(r) \/ ExtractArtifacts(r)

SpecFiles == InitFiles /\ [][NextFiles]_vars

RECURSIVE AllZipMembers(_)
\* the files inside an archive and inside the archives in it
AllZipMembers(f) ==
    ZipMembers(f) \cup UNION {AllZipMembers(m) : m \in ZipMembers(f)}

\* C25: the downloaded_files of a run and its artifacts hold only files that
\* the run itself downloaded (and the files inside them), never a file of a
\* concurrent run or of an earlier run.
C25_OnlyOwnFiles ==
    \A r \in FileRuns :
        LET run == downloads.run[r]
            mine == run.own \cup UNION {AllZipMembers(f) : f \in run.own}
        IN  run.pc \in {"extract", "done"} =>
                /\ run.downloaded_files \subseteq run.own
                /\ \A a \in run.artifacts : a.name \in mine

\* C26: a record that has reached SUCCESS or FAILED is never modified
\* again; a new verification gets a new record.
C26_TerminalRecordImmutable ==
    [][(v.verified /\ v.status \in {"SUCCESS", "FAILED"}) => v' = v]_vars

(***************************************************************************)
(* The thread shim at the head of _run_agent.  On Windows under a selector *)
(* loop the call is run again in a worker thread with its own event loop;  *)
(* the callbacks given to the inner call schedule the caller's callbacks   *)
(* on the caller's loop with run_coroutine_threadsafe and wait for them.   *)
(*   pc          "call", "direct", "dispatched", "returned" (outer call)   *)
(*   dispatches  the number of asyncio.to_thread calls made                *)
(*   inner       position and loop of the call in the worker thread        *)
(*   task        the coroutines of the running call that use callbacks:    *)
(*               0 when idle, else the number of the callback awaited      *)
(*   issued      the callbacks the running call has issued, in order       *)
(*   ready       the coroutines scheduled on the caller's loop             *)
(*   executed    the callbacks executed, each with the loop that ran it    *)
(*   done        the futures that are resolved                             *)
(***************************************************************************)
MaxCallbacks == 3
MaxDispatches == 2

ShimTasks == {"core", "log_pump", "shot_pump"}

CallbackOf(task) == IF task = "shot_pump" THEN "screenshot" ELSE "log"

RunResults == {"result", "exception"}

\* the loop of asyncio.run in _thread_entry, after
\* set_event_loop_policy(WindowsProactorEventLoopPolicy())
InnerLoopWithoutPolicy == "SelectorEventLoop"

InnerLoopName == "ProactorEventLoop"

\* if _IS_WINDOWS and "SelectorEventLoop" in loop_name
NeedsThread(is_windows, loop_name) == is_windows /\ loop_name = "SelectorEventLoop"

IdleShim(is_windows, loop_name) ==
    [pc |-> "call", is_windows |-> is_windows, loop_name |-> loop_name,
     dispatches |-> 0, inner |-> [pc |-> "none", loop_name |-> "(unknown)"],
     task |-> [t \in ShimTasks |-> 0], issued |-> <<>>, ready |-> <<>>,
     executed |-> <<>>, done |-> {}, inner_result |-> "none", result |-> "none"]

\* the outer call: the loop check, and asyncio.to_thread(_thread_entry)
ShimEnter ==
    /\ shim.pc = "call"
    /\ shim' = IF NeedsThread(shim.is_windows, shim.loop_name)
               THEN [shim EXCEPT !.pc = "dispatched", !.dispatches = @ + 1,
                                 !.inner = [pc |-> "call", loop_name |-> InnerLoopName]]
               ELSE [shim EXCEPT !.pc = "direct"]
    /\ UNCHANGED <<requests, downloads, bridge, probe, env, policy, v, job, observer, ra, jobs>>

\* the call in the worker thread: the same loop check
InnerEnter ==
    /\ shim.pc = "dispatched" /\ shim.inner.pc = "call"
    /\ IF NeedsThread(shim.is_windows, shim.inner.loop_name)
       THEN /\ shim.dispatches < MaxDispatches
            /\ shim' = [shim EXCEPT !.dispatches = @ + 1,
                                    !.inner = [pc |-> "call", loop_name |-> InnerLoopName]]
       ELSE shim' = [shim EXCEPT !.inner.pc = "run"]
    /\ UNCHANGED <<requests, downloads, bridge, probe, env, policy, v, job, observer, ra, jobs>>

\* a coroutine of the inner run calls _call_log or _call_shot:
\* run_coroutine_threadsafe(callback(...), main_loop), then it awaits
InnerIssue(t) ==
    /\ shim.pc = "dispatched" /\ shim.inner.pc = "run"
    /\ shim.task[t] = 0
    /\ Len(shim.issued) < MaxCallbacks
    /\ LET n == Len(shim.issued) + 1
           cb == [kind |-> CallbackOf(t), n |-> n]
       IN  shim' = [shim EXCEPT !.issued = Append(@, cb), !.ready = Append(@, cb),
                                !.task[t] = n]
    /\ UNCHANGED <<requests, downloads, bridge, probe, env, policy, v, job, observer, ra, jobs>>

\* the caller's loop, which awaits the thread, runs the next scheduled
\* callback and resolves its future
MainExecute ==
    /\ shim.pc \in {"dispatched", "returned"}
    /\ shim.ready # <<>>
    /\ shim' = [shim EXCEPT !.ready = Tail(@),
                            !.executed = Append(@, [cb |-> Head(shim.ready), loop |-> "caller"]),
                            !.done = @ \cup {Head(shim.ready).n}]
    /\ UNCHANGED <<requests, downloads, bridge, probe, env, policy, v, job, observer, ra, jobs>>

\* asyncio.wrap_future(fut) completes in the inner loop
InnerResume(t) ==
    /\ shim.pc = "dispatched" /\ shim.inner.pc = "run"
    /\ shim.task[t] # 0 /\ shim.task[t] \in shim.done
    /\ shim' = [shim EXCEPT !.task[t] = 0]
    /\ UNCHANGED <<requests, downloads, bridge, probe, env, policy, v, job, observer, ra, jobs>>

\* the inner run ends (its pumps are cancelled) with a value or an exception
InnerReturn ==
    /\ shim.pc = "dispatched" /\ shim.inner.pc = "run"
    /\ shim.task["core"] = 0
    /\ \E r \in RunResults :
         shim' = [shim EXCEPT !.inner.pc = "done", !.inner_result = r,
                              !.task = [t \in ShimTasks |-> 0]]
    /\ UNCHANGED <<requests, downloads, bridge, probe, env, policy, v, job, observer, ra, jobs>>

\* return await asyncio.to_thread(_thread_entry)
ShimReturn ==
    /\ shim.pc = "dispatched" /\ shim.inner.pc = "done"
    /\ shim' = [shim EXCEPT !.pc = "returned", !.result = shim.inner_result]
    /\ UNCHANGED <<requests, downloads, bridge, probe, env, policy, v, job, observer, ra, jobs>>

\* the call without the shim: a callback is awaited on the caller's loop
DirectIssue(t) ==
    /\ shim.pc = "direct"
    /\ Len(shim.issued) < MaxCallbacks
    /\ LET cb == [kind |-> CallbackOf(t), n |-> Len(shim.issued) + 1]
       IN  shim' = [shim EXCEPT !.issued = Append(@, cb),
                                !.executed = Append(@, [cb |-> cb, loop |-> "caller"]),
                                !.done = @ \cup {cb.n}]
    /\ UNCHANGED <<requests, downloads, bridge, probe, env, policy, v, job, observer, ra, jobs>>

DirectReturn ==
    /\ shim.pc = "direct"
    /\ \E r \in RunResults :
         shim' = [shim EXCEPT !.pc = "returned", !.inner_result = r, !.result = r]
    /\ UNCHANGED <<requests, downloads, bridge, probe, env, policy, v, job, observer, ra, jobs>>

InitShim ==
    /\ env = DefaultEnv
    /\ policy = "ok"
    /\ v = NoRecord
    /\ job = NoJob
    /\ observer = "none"
    /\ ra = IdleFrame
    /\ jobs = 0
    /\ probe = NoProbe
    /\ bridge = NoBridge
    /\ downloads = NoDownloads
    /\ shim \in {IdleShim(w, l) : w \in BOOLEAN,
                                  l \in {"SelectorEventLoop", "ProactorEventLoop", "(unknown)"}}
    /\ requests = NoRequests

NextShim ==
    \/ ShimEnter
    \/ InnerEnter
    \/ \E t \in ShimTasks : InnerIssue(t)
    \/ MainExecute
    \/ \E t \in ShimTasks : InnerResume(t)
    \/ InnerReturn
    \/ ShimReturn
    \/ \E t \in ShimTasks : DirectIssue(t)
    \/ DirectReturn

SpecShim == InitShim /\ [][NextShim]_vars

C28_NoFileDropped ==
    \A r \in FileRuns :
        LET run == downloads.run[r]
            names == {a.name : a \in run.artifacts}
        IN  run.pc = "done" =>
                /\ run.downloaded_files \subseteq names
                /\ \A f \in run.downloaded_files : AllZipMembers(f) \subseteq names

(***************************************************************************)
(* Concurrent requests POST /{policy_id}/verify for one policy.  The       *)
(* endpoint is a plain function, so the server runs each request in a      *)
(* thread of its pool; the query of the latest record and the later commit *)
(* of PENDING are separate steps of a handler.                             *)
(*   record      status of the latest PolicyVerification, "none" if absent *)
(*   handler[h]  position of a request handler, the force flag of its      *)
(*               request and the status it read                            *)
(*   in_flight   background jobs started and not finished                  *)
(*   served      requests answered                                         *)
(*   forced      some job was started by a request with force = true       *)
(***************************************************************************)
MaxHandlers == 2
MaxRequests == 3

Handlers == 1..MaxHandlers

IdleHandler == [pc |-> "idle", force |-> FALSE, latest |-> "none"]

\* request_verification: the policy is found and the latest record is read
ReadLatest(h) ==
    /\ requests.handler[h].pc = "idle"
    /\ requests.served + Cardinality({g \in Handlers : requests.handler[g].pc = "read"})
          < MaxRequests
    /\ \E force \in BOOLEAN :
         requests' = [requests EXCEPT !.handler[h] =
                         [pc |-> "read", force |-> force, latest |-> requests.record]]
    /\ UNCHANGED <<shim, downloads, bridge, probe, env, policy, v, job, observer, ra, jobs>>

\* request_verification: the PENDING check, get_or_create_verification, the
\* commit of PENDING and background_tasks.add_task
CheckAndStart(h) ==
    LET me == requests.handler[h]
    IN  /\ me.pc = "read"
        /\ requests' =
             IF me.latest = "PENDING" /\ ~me.force
             THEN [requests EXCEPT !.handler[h] = IdleHandler, !.served = @ + 1]
             ELSE [requests EXCEPT !.handler[h] = IdleHandler, !.served = @ + 1,
                                   !.record = "PENDING", !.in_flight = @ + 1,
                                   !.forced = @ \/ me.force]
        /\ UNCHANGED <<shim, downloads, bridge, probe, env, policy, v, job, observer, ra, jobs>>

\* run_verification_job_sync commits its outcome
JobCommit ==
    /\ requests.in_flight > 0
    /\ \E status \in {"SUCCESS", "FAILED"} :
         requests' = [requests EXCEPT !.record = status, !.in_flight = @ - 1]
    /\ UNCHANGED <<shim, downloads, bridge, probe, env, policy, v, job, observer, ra, jobs>>

InitRequests ==
    /\ env = DefaultEnv
    /\ policy = "ok"
    /\ v = NoRecord
    /\ job = NoJob
    /\ observer = "none"
    /\ ra = IdleFrame
    /\ jobs = 0
    /\ probe = NoProbe
    /\ bridge = NoBridge
    /\ downloads = NoDownloads
    /\ shim = NoShim
    /\ requests = [record |-> "none", handler |-> [h \in Handlers |-> IdleHandler],
                   in_flight |-> 0, served |-> 0, forced |-> FALSE]

NextRequests ==
    \/ \E h \in Handlers : ReadLatest(h)
    \/ \E h \in Handlers : CheckAndStart(h)
    \/ JobCommit

SpecRequests == InitRequests /\ [][NextRequests]_vars

\* C29: as long as no request sets force, at most one verification job of
\* the policy is in flight, for every interleaving of the requests.
C29_OneJobInFlight ==
    ~requests.forced => requests.in_flight <= 1

\* run_verification_job_sync has finished a run for an existing policy
BgFinished ==
    /\ job.kind = "rest" /\ job.pc = "done"
    /\ job.path \in {"decided", "exception", "guidance_exception"}

\* C30: after run_verification_job_sync the error_message is null exactly
\* if the status is SUCCESS; a FAILED record carries the agent's
\* error_message when there is one, else the reason of the decision, and
\* the exception text on the exception path.
C30_ErrorMessageIffFailed ==
    BgFinished =>
        /\ v.status \in {"SUCCESS", "FAILED"}
        /\ (v.error_message = None) <=> (v.status = "SUCCESS")
        /\ v.status = "FAILED" => Strip(v.error_message) # EmptyStr
        /\ (v.status = "FAILED" /\ job.path = "decided") =>
             LET browser_err == Strip(OrEmpty(ra.result.error_message))
             IN  v.error_message =
                    IF browser_err # EmptyStr THEN browser_err
                    ELSE _decide_status_from_browser_result(ra.result).reason

\* a run decided FAILED without an error_message of the agent: the record
\* carries the reason of the decision
C30_WitnessReasonPersisted ==
    /\ BgFinished /\ job.path = "decided"
    /\ v.status = "FAILED"
    /\ Strip(OrEmpty(ra.result.error_message)) = EmptyStr
    /\ v.error_message # None

====
